---- MODULE Spec2Model ----
(***************************************************************************)
(* Slot availability and booking of src/src/App.jsx: the ScheduleGrid      *)
(* component (availability calculator, date navigation, slot selection,    *)
(* payment gate and addDoc commit), the Firestore appointment collection   *)
(* and its onSnapshot listeners, for several browser clients sharing one   *)
(* collection.                                                             *)
(*                                                                         *)
(* Time is counted in minutes.  A JavaScript Date is its UTC instant; the  *)
(* operating timezone is an offset tz (local = UTC + tz).  A date string   *)
(* 'YYYY-MM-DD' is the number of its calendar day, a time string is the    *)
(* text "HH:00".                                                           *)
(***************************************************************************)
EXTENDS Integers, Sequences, FiniteSets, TLC

VARIABLES
    tz,               \* offset of the browser's timezone from UTC, minutes
    now,              \* the wall clock, new Date().getTime()
    store,            \* the appointments collection: sequence of documents
    currentPage,      \* App.currentPage, per client
    appAppointments,  \* App.appointments, per client
    showNotification, \* App.showNotification, per client
    selectedDate,     \* ScheduleGrid.selectedDate, per client
    selectedTime,     \* ScheduleGrid.selectedTime, per client
    appointments,     \* ScheduleGrid.appointments, per client
    availableSlots,   \* ScheduleGrid.availableSlots (useMemo), per client
    isBooking,        \* ScheduleGrid.isBooking, per client
    error,            \* ScheduleGrid.error, per client
    paymentGate,      \* what window.confirm last returned, per client
    inflight,         \* addDoc calls awaiting the store's answer, per client
    snapshotSeen,     \* the grid's onSnapshot callback has run, per client
    gridSub,          \* onSnapshot listeners ScheduleGrid holds, per client
    userId,           \* App.userId, per client
    isAuthReady,      \* App.isAuthReady, per client
    userProfile,      \* App.userProfile, per client
    appSub,           \* onSnapshot listeners App holds, per client
    profileLoad,      \* the uid whose loadUserProfile awaits its getDoc, per client
    query,            \* calculator harness: the inputs of one call
    slots             \* calculator harness: the result of that call

vars == <<tz, now, store, currentPage, appAppointments, showNotification,
          selectedDate, selectedTime, appointments, availableSlots, isBooking,
          error, paymentGate, inflight, snapshotSeen, gridSub, userId, isAuthReady,
          userProfile, appSub, profileLoad, query, slots>>

progVars == <<store, currentPage, appAppointments, showNotification,
              selectedDate, selectedTime, appointments, availableSlots,
              isBooking, error, paymentGate, inflight, snapshotSeen, gridSub,
              userId, isAuthReady, userProfile, appSub, profileLoad>>

calcVars == <<query, slots>>

authVars == <<userId, isAuthReady, userProfile, appSub, profileLoad>>

Null == "null"

\* The calculator harness outside a call.
NoQuery == <<>>
NotComputed == <<Null>>

\* showNotification === null
NoNotification == <<>>

\* The selectedDate of a client without a ScheduleGrid instance: an instant
\* no clock of the model reaches.
NoDate == -(1000 * 24 * 60)

\* The complete profile document stored under a uid (name, whatsapp,
\* profileComplete: true), known by the uid it belongs to.
ProfileOf(uid) == uid

\* The uid Firebase gives the anonymous user created by a sign-in that
\* follows a sign-out.
AnonUid(c) == "anon-" \o c

(***************************************************************************)
(* Bounds of the model.                                                    *)
(***************************************************************************)
MaxRecords == 2      \* documents written plus creates in flight
MaxTicks == 1        \* clock steps taken by the model
MaxExisting == 2     \* documents in the set handed to the calculator

\* The local calendar days the modelled users navigate to.
NavDays == {0, 1}

\* The browser clients sharing the collection (their uids).
Clients == {"u1", "u2"}

\* The slots the modelled users click, when the grid offers them.
ClickSlots == {"10:00", "14:00"}

\* The documents other clients write: their date strings and times.
ForeignDates == {0, 1}
ForeignSlots == {"10:00"}

\* The browsers the model starts with: the offset of their timezone (UTC
\* itself, and UTC-3 of Brasilia) and the local time of day 0.
Starts == {[tz |-> 0, h |-> 8, m |-> 30], [tz |-> -180, h |-> 20, m |-> 30]}

\* A browser started half an hour before local midnight.
LateStart == [tz |-> 0, h |-> 23, m |-> 30]

(***************************************************************************)
(* JavaScript Date, as the source uses it.                                 *)
(***************************************************************************)
MinutesOfDay == 24 * 60

\* new Date(year, month, day, h, m).getTime() for the local calendar day
\* `day`, in the zone with offset z.
LocalDateAt(z, day, h, m) == day * MinutesOfDay + h * 60 + m - z

LocalDate(day, h, m) == LocalDateAt(tz, day, h, m)

\* date.toDateString(): the local calendar day of the instant.
toDateString(date) == (date + tz) \div MinutesOfDay

\* date.toISOString().split('T')[0]: the UTC calendar day of the instant.
toISODateString(date) == date \div MinutesOfDay

\* new Date().setHours(0, 0, 0, 0): local midnight of the current day.
StartOfToday(t) == LocalDate(toDateString(t), 0, 0)

\* newDate.setDate(getDate() + days): same local time of day, `days` later.
AddDays(date, days) == date + days * MinutesOfDay

\* `${hour < 10 ? '0' : ''}${hour}:00`
FormatTime(hour) == (IF hour < 10 THEN "0" ELSE "") \o ToString(hour) \o ":00"

\* time.split(':').map(Number), for the texts FormatTime produces.
TimeTexts == [k \in 0..23 |-> FormatTime(k)]

ParseTime(time) ==
    LET h == CHOOSE k \in 0..23 : TimeTexts[k] = time IN <<h, 0>>

\* new Date(app.date + 'T' + app.time + ':00'): a date-time text without a
\* zone is read as local time.
ParseLocalDateTime(dateString, time) ==
    LET hm == ParseTime(time) IN LocalDate(dateString, hm[1], hm[2])

(***************************************************************************)
(* ScheduleGrid.getAvailableSlots                                          *)
(***************************************************************************)
FirstHour == 9
LastHour == 17
ClosingHour == 18
LeadMinutes == 60

\* The loop run through the closing hour, without the guard on 18:00.
RECURSIVE BuildTimeSlotsThroughClosing(_)
BuildTimeSlotsThroughClosing(hour) ==
    IF hour <= ClosingHour
    THEN <<FormatTime(hour)>> \o BuildTimeSlotsThroughClosing(hour + 1)
    ELSE <<>>

\* for (let hour = 9; hour <= 17; hour++) if (hour < 18) timeSlots.push(...)
RECURSIVE BuildTimeSlots(_)
BuildTimeSlots(hour) ==
    IF hour <= LastHour
    THEN (IF hour < ClosingHour THEN <<FormatTime(hour)>> ELSE <<>>)
         \o BuildTimeSlots(hour + 1)
    ELSE <<>>

timeSlots == BuildTimeSlots(FirstHour)

isToday(date, t) == toDateString(date) = toDateString(t)

\* appointments.some(app => app.date === dateString && app.time === time)
isBooked(apps, dateString, time) ==
    \E i \in 1..Len(apps) : apps[i].date = dateString /\ apps[i].time = time

\* The lead-time test with >= in place of >.
AfterLeadTimeNotStrict(date, time, t) ==
    LET hm == ParseTime(time)
        slotTime == LocalDate(toDateString(date), hm[1], hm[2])
    IN  slotTime >= t + LeadMinutes

\* slotTime.getTime() > now.getTime() + 60 * 60 * 1000
AfterLeadTime(date, time, t) ==
    LET hm == ParseTime(time)
        slotTime == LocalDate(toDateString(date), hm[1], hm[2])
    IN  slotTime > t + LeadMinutes

SlotPasses(date, apps, t, time) ==
    IF isBooked(apps, toISODateString(date), time) THEN FALSE
    ELSE IF isToday(date, t) THEN AfterLeadTime(date, time, t)
    ELSE TRUE

getAvailableSlots(date, apps, t) ==
    SelectSeq(timeSlots, LAMBDA time : SlotPasses(date, apps, t, time))

(***************************************************************************)
(* The shared collection and the clients.                                  *)
(***************************************************************************)
NoSlotSelectedMsg == "Por favor, selecione um horario."
PaymentCancelledMsg == "Pagamento cancelado ou falhou. O agendamento nao foi concluido."
StoreFailedMsg == "Falha ao registrar o agendamento no sistema. Tente novamente."

Range(seq) == {seq[i] : i \in 1..Len(seq)}

\* Sum of the creates in flight over the given clients.
RECURSIVE InflightCount(_)
InflightCount(cs) ==
    IF cs = {} THEN 0
    ELSE LET c == CHOOSE x \in cs : TRUE
         IN  Len(inflight[c]) + InflightCount(cs \ {c})

\* Remove element i of a sequence.
RemoveAt(seq, i) == [k \in 1..(Len(seq) - 1) |-> IF k < i THEN seq[k] ELSE seq[k + 1]]

\* The clock steps taken since the model started: it starts on day 0 at one
\* of the local times of Starts or LateStart and steps by 30 minutes.
TicksTaken(t) ==
    LET startMinutes == {st.h * 60 + st.m : st \in Starts \cup {LateStart}}
        reached == {sm \in startMinutes : sm <= t + tz}
        latest == CHOOSE sm \in reached : \A other \in reached : other <= sm
    IN  ((t + tz) - latest) \div 30

\* The user can reach the page's controls: no NotificationDisplay overlay
\* (fixed inset-0) covers the page.
CanClick(c) == showNotification[c] = NoNotification

GridMounted(c) == currentPage[c] = "schedule"

\* The state a ScheduleGrid instance is constructed with (useState initial
\* values, first evaluation of the availableSlots memo).
MountGrid(c) ==
    /\ selectedDate' = [selectedDate EXCEPT ![c] = now]
    /\ selectedTime' = [selectedTime EXCEPT ![c] = Null]
    /\ appointments' = [appointments EXCEPT ![c] = <<>>]
    /\ availableSlots' = [availableSlots EXCEPT ![c] = getAvailableSlots(now, <<>>, now)]
    /\ isBooking' = [isBooking EXCEPT ![c] = FALSE]
    /\ error' = [error EXCEPT ![c] = ""]
    /\ snapshotSeen' = [snapshotSeen EXCEPT ![c] = FALSE]
    /\ paymentGate' = [paymentGate EXCEPT ![c] = "none"]
    /\ gridSub' = [gridSub EXCEPT ![c] = @ + 1]

\* The unmount of an effect that returns no cleanup: the listener of the
\* instance stays registered.
UnmountGridKeepsListener(c) ==
    /\ selectedDate' = [selectedDate EXCEPT ![c] = NoDate]
    /\ selectedTime' = [selectedTime EXCEPT ![c] = Null]
    /\ appointments' = [appointments EXCEPT ![c] = <<>>]
    /\ availableSlots' = [availableSlots EXCEPT ![c] = <<>>]
    /\ isBooking' = [isBooking EXCEPT ![c] = FALSE]
    /\ error' = [error EXCEPT ![c] = ""]
    /\ snapshotSeen' = [snapshotSeen EXCEPT ![c] = FALSE]
    /\ paymentGate' = [paymentGate EXCEPT ![c] = "none"]
    /\ UNCHANGED gridSub

\* The instance is unmounted: its state is dropped, the setState calls of
\* handlers still running for it have no effect, and the cleanup of its
\* effect unsubscribes its listener.
UnmountGrid(c) ==
    /\ selectedDate' = [selectedDate EXCEPT ![c] = NoDate]
    /\ selectedTime' = [selectedTime EXCEPT ![c] = Null]
    /\ appointments' = [appointments EXCEPT ![c] = <<>>]
    /\ availableSlots' = [availableSlots EXCEPT ![c] = <<>>]
    /\ isBooking' = [isBooking EXCEPT ![c] = FALSE]
    /\ error' = [error EXCEPT ![c] = ""]
    /\ snapshotSeen' = [snapshotSeen EXCEPT ![c] = FALSE]
    /\ paymentGate' = [paymentGate EXCEPT ![c] = "none"]
    /\ gridSub' = [gridSub EXCEPT ![c] = IF GridMounted(c) THEN @ - 1 ELSE @]

Orphaned(fl) == [k \in 1..Len(fl) |-> [fl[k] EXCEPT !.mounted = FALSE]]

gridVars == <<selectedDate, selectedTime, appointments, availableSlots, isBooking, error,
              snapshotSeen, paymentGate, gridSub>>

\* The state after App is constructed in a browser started at st.
InitAt(st) ==
    /\ tz = st.tz
    /\ now = LocalDateAt(st.tz, 0, st.h, st.m)
    /\ store = <<>>
    /\ currentPage = [c \in Clients |-> "dashboard"]
    /\ appAppointments = [c \in Clients |-> <<>>]
    /\ showNotification = [c \in Clients |-> NoNotification]
    /\ selectedDate = [c \in Clients |-> NoDate]
    /\ selectedTime = [c \in Clients |-> Null]
    /\ appointments = [c \in Clients |-> <<>>]
    /\ availableSlots = [c \in Clients |-> <<>>]
    /\ isBooking = [c \in Clients |-> FALSE]
    /\ error = [c \in Clients |-> ""]
    /\ paymentGate = [c \in Clients |-> "none"]
    /\ inflight = [c \in Clients |-> <<>>]
    /\ snapshotSeen = [c \in Clients |-> FALSE]
    /\ gridSub = [c \in Clients |-> 0]
    /\ userId = [c \in Clients |-> Null]
    /\ isAuthReady = [c \in Clients |-> FALSE]
    /\ userProfile = [c \in Clients |-> Null]
    /\ appSub = [c \in Clients |-> 0]
    /\ profileLoad = [c \in Clients |-> Null]
    /\ query = NoQuery
    /\ slots = NotComputed

Init == \E st \in Starts : InitAt(st)

\* App renders the page of currentPage (neither LoadingScreen nor AuthScreen).
ProfileReady(c) == isAuthReady[c] /\ userProfile[c] # Null

\* onAuthStateChanged calls back with the signed-in user: setUserId(user.uid)
\* and loadUserProfile suspended at its getDoc.
SignedIn(c) ==
    /\ userId[c] = Null
    /\ userId' = [userId EXCEPT ![c] = c]
    /\ profileLoad' = [profileLoad EXCEPT ![c] = c]
    /\ UNCHANGED <<tz, now, store, currentPage, appAppointments, showNotification,
                   gridVars, inflight, isAuthReady, userProfile, appSub, calcVars>>

\* onAuthStateChanged calls back with null (a sign-out), authenticateUser
\* signs in again and the listener calls back with the new user: the same
\* uid under a custom token, a new uid when the sign-in is anonymous.  The
\* callback sets userId and starts loadUserProfile; userProfile,
\* isAuthReady and currentPage keep their values.
SignedInAgain(c, uid) ==
    /\ userId[c] # Null
    /\ profileLoad[c] = Null
    /\ userId' = [userId EXCEPT ![c] = uid]
    /\ profileLoad' = [profileLoad EXCEPT ![c] = uid]
    /\ UNCHANGED <<tz, now, store, currentPage, appAppointments, showNotification,
                   gridVars, inflight, isAuthReady, userProfile, appSub, calcVars>>

\* The appointments effect of App, run after a render in which its
\* dependencies changed: the cleanup of its previous run unsubscribes the
\* listener that run registered, and it subscribes once db, isAuthReady and
\* userProfile are all set.
AppEffect(c) ==
    appSub' = [appSub EXCEPT ![c] =
        (@ - (IF ProfileReady(c) THEN 1 ELSE 0))
           + (IF isAuthReady'[c] /\ userProfile'[c] # Null THEN 1 ELSE 0)]

\* loadUserProfile after its getDoc: the profile document is complete, is
\* missing or incomplete, or could not be read.
LoadUserProfile(c, outcome) ==
    /\ profileLoad[c] # Null
    /\ outcome = "complete" => profileLoad[c] # AnonUid(c)
    /\ profileLoad' = [profileLoad EXCEPT ![c] = Null]
    /\ userProfile' = [userProfile EXCEPT ![c] =
           IF outcome = "complete" THEN ProfileOf(profileLoad[c]) ELSE @]
    /\ currentPage' = [currentPage EXCEPT ![c] =
           IF outcome = "missing" THEN "auth" ELSE @]
    /\ isAuthReady' = [isAuthReady EXCEPT ![c] = TRUE]
    /\ IF GridMounted(c) /\ outcome = "missing"
       THEN /\ UnmountGrid(c)
            /\ inflight' = [inflight EXCEPT ![c] = Orphaned(inflight[c])]
       ELSE UNCHANGED <<gridVars, inflight>>
    /\ UNCHANGED <<tz, now, store, appAppointments, showNotification, userId, calcVars>>
    /\ AppEffect(c)

\* handleProfileComplete, called by AuthScreen after its setDoc.
HandleProfileComplete(c) ==
    /\ isAuthReady[c]
    /\ userProfile[c] = Null
    /\ userProfile' = [userProfile EXCEPT ![c] = ProfileOf(userId[c])]
    /\ currentPage' = [currentPage EXCEPT ![c] = "dashboard"]
    /\ UNCHANGED <<tz, now, store, appAppointments, showNotification, gridVars,
                   inflight, userId, isAuthReady, profileLoad, calcVars>>
    /\ AppEffect(c)

\* Start-up of the browser of client c, up to the dashboard.
AuthStep(c) ==
    \/ SignedIn(c)
    \/ \E outcome \in {"complete", "missing", "error"} : LoadUserProfile(c, outcome)
    \/ HandleProfileComplete(c)

\* DashboardScreen: onClick={() => setCurrentPage('schedule')}
OpenSchedule(c) ==
    /\ ProfileReady(c)
    /\ currentPage[c] # "schedule"
    /\ CanClick(c)
    /\ currentPage' = [currentPage EXCEPT ![c] = "schedule"]
    /\ MountGrid(c)
    /\ UNCHANGED <<tz, now, store, appAppointments, showNotification, inflight, authVars,
                   calcVars>>

\* ScheduleGrid: onClick={() => setCurrentPage('dashboard')}
BackToDashboard(c) ==
    /\ GridMounted(c)
    /\ CanClick(c)
    /\ currentPage' = [currentPage EXCEPT ![c] = "dashboard"]
    /\ UnmountGrid(c)
    /\ inflight' = [inflight EXCEPT ![c] = Orphaned(inflight[c])]
    /\ UNCHANGED <<tz, now, store, appAppointments, showNotification, authVars, calcVars>>

\* NotificationDisplay: onClose={() => setShowNotification(null)}
CloseNotification(c) ==
    /\ showNotification[c] # NoNotification
    /\ showNotification' = [showNotification EXCEPT ![c] = NoNotification]
    /\ UNCHANGED <<tz, now, store, currentPage, appAppointments, gridVars, inflight,
                   authVars, calcVars>>

\* The callback appending the snapshot to the previous cache,
\* setAppointments(prev => [...prev, ...fetchedAppointments]).
DeliverGridMerges(c) ==
    /\ GridMounted(c)
    /\ gridSub[c] > 0
    /\ ~snapshotSeen[c] \/ appointments[c] # store
    /\ snapshotSeen' = [snapshotSeen EXCEPT ![c] = TRUE]
    /\ appointments' = [appointments EXCEPT ![c] = @ \o store]
    /\ availableSlots' = [availableSlots EXCEPT ![c] =
           getAvailableSlots(selectedDate[c], appointments'[c], now)]
    /\ UNCHANGED <<tz, now, store, currentPage, appAppointments, showNotification,
                   selectedDate, selectedTime, isBooking, error, paymentGate, inflight,
                   gridSub, authVars, calcVars>>

\* ScheduleGrid onSnapshot callback: setAppointments(fetchedAppointments);
\* the new array re-evaluates the availableSlots memo.  The listener calls
\* back once after subscribing and then after every change of the collection.
DeliverGrid(c) ==
    /\ GridMounted(c)
    /\ gridSub[c] > 0
    /\ ~snapshotSeen[c] \/ appointments[c] # store
    /\ snapshotSeen' = [snapshotSeen EXCEPT ![c] = TRUE]
    /\ appointments' = [appointments EXCEPT ![c] = store]
    /\ availableSlots' = [availableSlots EXCEPT ![c] = getAvailableSlots(selectedDate[c], store, now)]
    /\ UNCHANGED <<tz, now, store, currentPage, appAppointments, showNotification,
                   selectedDate, selectedTime, isBooking, error, paymentGate, inflight,
                   gridSub, authVars, calcVars>>

\* App onSnapshot callback: setAppointments(fetchedAppointments)
DeliverApp(c) ==
    /\ appSub[c] > 0
    /\ appAppointments[c] # store
    /\ appAppointments' = [appAppointments EXCEPT ![c] = store]
    /\ UNCHANGED <<tz, now, store, currentPage, showNotification, gridVars, inflight,
                   authVars, calcVars>>

\* handleDateChange without setSelectedTime(null): the slot picked for the
\* previous date stays selected.
HandleDateChangeKeepsTime(c, days) ==
    /\ GridMounted(c)
    /\ CanClick(c)
    /\ LET newDate == AddDays(selectedDate[c], days)
       IN  /\ toDateString(newDate) < 0 \/ toDateString(newDate) \in NavDays
           /\ IF newDate < StartOfToday(now)
              THEN UNCHANGED <<selectedDate, error, availableSlots>>
              ELSE /\ selectedDate' = [selectedDate EXCEPT ![c] = newDate]
                   /\ error' = [error EXCEPT ![c] = ""]
                   /\ availableSlots' = [availableSlots EXCEPT ![c] =
                          getAvailableSlots(newDate, appointments[c], now)]
    /\ UNCHANGED <<tz, now, store, currentPage, appAppointments, showNotification,
                   selectedTime, appointments, isBooking, paymentGate, inflight,
                   snapshotSeen, gridSub, authVars, calcVars>>

\* handleDateChange(days), from the two arrow buttons.
HandleDateChange(c, days) ==
    /\ GridMounted(c)
    /\ CanClick(c)
    /\ LET newDate == AddDays(selectedDate[c], days)
       IN  /\ toDateString(newDate) < 0 \/ toDateString(newDate) \in NavDays
           /\ IF newDate < StartOfToday(now)
              THEN UNCHANGED <<selectedDate, selectedTime, error, availableSlots>>
              ELSE /\ selectedDate' = [selectedDate EXCEPT ![c] = newDate]
                   /\ selectedTime' = [selectedTime EXCEPT ![c] = Null]
                   /\ error' = [error EXCEPT ![c] = ""]
                   /\ availableSlots' = [availableSlots EXCEPT ![c] =
                          getAvailableSlots(newDate, appointments[c], now)]
    /\ UNCHANGED <<tz, now, store, currentPage, appAppointments, showNotification,
                   appointments, isBooking, paymentGate, inflight, snapshotSeen,
                   gridSub, authVars, calcVars>>

\* handleSelectTime(time), from the button of a slot the grid renders.
HandleSelectTime(c, time) ==
    /\ GridMounted(c)
    /\ CanClick(c)
    /\ time \in Range(availableSlots[c])
    /\ selectedTime' = [selectedTime EXCEPT ![c] = time]
    /\ error' = [error EXCEPT ![c] = ""]
    /\ UNCHANGED <<tz, now, store, currentPage, appAppointments, showNotification,
                   selectedDate, appointments, availableSlots, isBooking, paymentGate,
                   inflight, snapshotSeen, gridSub, authVars, calcVars>>

\* The document handlePaymentAndBooking builds.
newAppointment(c) ==
    [userId |-> userId[c],
     profile |-> userProfile[c],
     date |-> toISODateString(selectedDate[c]),
     time |-> selectedTime[c],
     paid |-> TRUE]

\* The validation branch without its return: the handler goes on to the
\* payment gate and the create.
RejectNoSlotFallsThrough(c) ==
    /\ paymentGate' = [paymentGate EXCEPT ![c] = "ok"]
    /\ isBooking' = [isBooking EXCEPT ![c] = TRUE]
    /\ error' = [error EXCEPT ![c] = ""]
    /\ inflight' = [inflight EXCEPT ![c] =
           Append(@, [appt |-> newAppointment(c), mounted |-> TRUE])]

\* if (!selectedTime) { setError(...); return; }
RejectNoSlot(c) ==
    /\ error' = [error EXCEPT ![c] = NoSlotSelectedMsg]
    /\ UNCHANGED <<isBooking, inflight, paymentGate>>

\* The cancelled gate without its return: the handler goes on to the create.
RejectPaymentFallsThrough(c) ==
    /\ paymentGate' = [paymentGate EXCEPT ![c] = "cancelled"]
    /\ isBooking' = [isBooking EXCEPT ![c] = TRUE]
    /\ error' = [error EXCEPT ![c] = ""]
    /\ inflight' = [inflight EXCEPT ![c] =
           Append(@, [appt |-> newAppointment(c), mounted |-> TRUE])]

\* if (!window.confirm(...)) { setError(...); return; }
RejectPayment(c) ==
    /\ paymentGate' = [paymentGate EXCEPT ![c] = "cancelled"]
    /\ error' = [error EXCEPT ![c] = PaymentCancelledMsg]
    /\ UNCHANGED <<isBooking, inflight>>

\* The create issued without setIsBooking(true): the confirm button stays
\* enabled while the create is in flight.
IssueCreateStaysIdle(c) ==
    /\ paymentGate' = [paymentGate EXCEPT ![c] = "ok"]
    /\ error' = [error EXCEPT ![c] = ""]
    /\ inflight' = [inflight EXCEPT ![c] =
           Append(@, [appt |-> newAppointment(c), mounted |-> TRUE])]
    /\ UNCHANGED isBooking

\* window.confirm returned true: setIsBooking(true), setError(''), addDoc
\* issued, the handler suspended at the await.
IssueCreate(c) ==
    /\ paymentGate' = [paymentGate EXCEPT ![c] = "ok"]
    /\ isBooking' = [isBooking EXCEPT ![c] = TRUE]
    /\ error' = [error EXCEPT ![c] = ""]
    /\ inflight' = [inflight EXCEPT ![c] =
           Append(@, [appt |-> newAppointment(c), mounted |-> TRUE])]

\* handlePaymentAndBooking up to its await, from the confirm button
\* (disabled={isBooking}); `ok` is what window.confirm returns.
HandlePaymentAndBooking(c, ok) ==
    /\ GridMounted(c)
    /\ CanClick(c)
    /\ ~isBooking[c]
    /\ IF selectedTime[c] = Null THEN RejectNoSlot(c)
       ELSE IF ~ok THEN RejectPayment(c)
       ELSE /\ Len(store) + InflightCount(Clients) < MaxRecords
            /\ IssueCreate(c)
    /\ UNCHANGED <<tz, now, store, currentPage, appAppointments, showNotification,
                   selectedDate, selectedTime, appointments, availableSlots,
                   snapshotSeen, gridSub, authVars, calcVars>>

\* A write keyed by the slot, setDoc(doc(ref, date + '_' + time), data): the
\* document of a slot already written is replaced.
setDocBySlot(docs, data) ==
    IF \E k \in 1..Len(docs) : docs[k].date = data.date /\ docs[k].time = data.time
    THEN [k \in 1..Len(docs) |->
             IF docs[k].date = data.date /\ docs[k].time = data.time
             THEN [id |-> docs[k].id, userId |-> data.userId, profile |-> data.profile,
                   date |-> data.date, time |-> data.time, paid |-> data.paid]
             ELSE docs[k]]
    ELSE Append(docs, [id |-> Len(docs) + 1, userId |-> data.userId,
                       profile |-> data.profile, date |-> data.date,
                       time |-> data.time, paid |-> data.paid])

\* addDoc: the collection takes the document under a new id.
addDoc(docs, data) ==
    Append(docs, [id |-> Len(docs) + 1, userId |-> data.userId, profile |-> data.profile,
                  date |-> data.date, time |-> data.time, paid |-> data.paid])

\* The await of addDoc resolves: onBookingConfirmed({...newAppointment, id})
\* (App.handleBookingConfirmed: setShowNotification, setCurrentPage('dashboard'))
\* and, in the finally, setIsBooking(false) on the instance that is unmounted.
AddDocResolves(c, i) ==
    /\ i \in 1..Len(inflight[c])
    /\ store' = addDoc(store, inflight[c][i].appt)
    /\ showNotification' = [showNotification EXCEPT ![c] = store'[Len(store')]]
    /\ currentPage' = [currentPage EXCEPT ![c] = "dashboard"]
    /\ UnmountGrid(c)
    /\ inflight' = [inflight EXCEPT ![c] = Orphaned(RemoveAt(@, i))]
    /\ UNCHANGED <<tz, now, appAppointments, authVars, calcVars>>

\* The rejected addDoc with the onBookingConfirmed call moved to the finally:
\* the reminder is raised for a document that was never written.
AddDocRejectsNotifies(c, i) ==
    /\ i \in 1..Len(inflight[c])
    /\ showNotification' = [showNotification EXCEPT ![c] =
           [id |-> 0, userId |-> inflight[c][i].appt.userId,
            profile |-> inflight[c][i].appt.profile,
            date |-> inflight[c][i].appt.date, time |-> inflight[c][i].appt.time,
            paid |-> inflight[c][i].appt.paid]]
    /\ currentPage' = [currentPage EXCEPT ![c] = "dashboard"]
    /\ UnmountGrid(c)
    /\ inflight' = [inflight EXCEPT ![c] = Orphaned(RemoveAt(@, i))]
    /\ UNCHANGED <<tz, now, store, appAppointments, authVars, calcVars>>

\* The rejected addDoc of a handler without its finally: isBooking stays
\* true after the catch.
AddDocRejectsStaysBooking(c, i) ==
    /\ i \in 1..Len(inflight[c])
    /\ inflight' = [inflight EXCEPT ![c] = RemoveAt(@, i)]
    /\ IF inflight[c][i].mounted
       THEN error' = [error EXCEPT ![c] = StoreFailedMsg]
       ELSE UNCHANGED error
    /\ UNCHANGED <<tz, now, store, currentPage, appAppointments, showNotification,
                   selectedDate, selectedTime, appointments, availableSlots, isBooking,
                   snapshotSeen, paymentGate, gridSub, authVars, calcVars>>

\* The await of addDoc rejects: the catch sets the error text and the
\* finally clears isBooking, when the instance is still mounted.
AddDocRejects(c, i) ==
    /\ i \in 1..Len(inflight[c])
    /\ inflight' = [inflight EXCEPT ![c] = RemoveAt(@, i)]
    /\ IF inflight[c][i].mounted
       THEN /\ error' = [error EXCEPT ![c] = StoreFailedMsg]
            /\ isBooking' = [isBooking EXCEPT ![c] = FALSE]
       ELSE UNCHANGED <<error, isBooking>>
    /\ UNCHANGED <<tz, now, store, currentPage, appAppointments, showNotification,
                   selectedDate, selectedTime, appointments, availableSlots,
                   snapshotSeen, paymentGate, gridSub, authVars, calcVars>>

\* The wall clock advances.
Tick ==
    /\ TicksTaken(now) < MaxTicks
    /\ now' = now + 30
    /\ UNCHANGED <<tz, progVars, calcVars>>

\* Another browser's addDoc reaches the collection: a document of a client
\* whose grid is not part of this model's state.
ForeignCreate(u, date, time) ==
    /\ Len(store) + InflightCount(Clients) < MaxRecords
    /\ store' = addDoc(store, [userId |-> u, profile |-> ProfileOf(u), date |-> date,
                               time |-> time, paid |-> TRUE])
    /\ UNCHANGED <<tz, now, currentPage, appAppointments, showNotification, gridVars,
                   inflight, authVars, calcVars>>

\* Everything the browser of client c can do.
ClientStep(c) ==
    \/ AuthStep(c)
    \/ OpenSchedule(c)
    \/ BackToDashboard(c)
    \/ CloseNotification(c)
    \/ DeliverGrid(c)
    \/ \E days \in {-1, 1} : HandleDateChange(c, days)
    \/ \E time \in ClickSlots : HandleSelectTime(c, time)
    \/ \E ok \in BOOLEAN : HandlePaymentAndBooking(c, ok)
    \/ \E i \in 1..MaxRecords : AddDocResolves(c, i)
    \/ \E i \in 1..MaxRecords : AddDocRejects(c, i)

\* The booking path of client c: open the grid, receive snapshots, pick a
\* slot, pay, have the create answered, close the reminder.
BookingStep(c) ==
    \/ AuthStep(c)
    \/ OpenSchedule(c)
    \/ CloseNotification(c)
    \/ DeliverGrid(c)
    \/ \E time \in ClickSlots : HandleSelectTime(c, time)
    \/ \E ok \in BOOLEAN : HandlePaymentAndBooking(c, ok)
    \/ \E i \in 1..MaxRecords : AddDocResolves(c, i)
    \/ \E i \in 1..MaxRecords : AddDocRejects(c, i)

\* One browser in full, the other clients seen through the documents they
\* write.
Next ==
    \/ ClientStep("u1")
    \/ \E date \in ForeignDates, time \in ForeignSlots : ForeignCreate("u2", date, time)
    \/ Tick

Spec == Init /\ [][Next]_vars

\* One browser in full with the listener of App, the snapshots delivered
\* fairly: Firestore calls a registered listener back after every change of
\* the collection.
NextFeed ==
    \/ Next
    \/ DeliverApp("u1")

FairFeed ==
    /\ WF_<<appointments, snapshotSeen>>(DeliverGrid("u1"))
    /\ WF_appAppointments(DeliverApp("u1"))

SpecFeed == Init /\ [][NextFeed]_vars /\ FairFeed

\* One browser with both of its listeners, booking, leaving and reopening
\* the grid while other clients write; the clock stands still.
NextCache ==
    \/ BookingStep("u1")
    \/ BackToDashboard("u1")
    \/ DeliverApp("u1")
    \/ \E date \in ForeignDates, time \in ForeignSlots : ForeignCreate("u2", date, time)

SpecCache == Init /\ [][NextCache]_vars

\* One browser in full, started shortly before midnight.
InitMidnight == InitAt(LateStart)

SpecMidnight == InitMidnight /\ [][Next]_vars

\* One browser booking while its Firebase user is signed out and signed in
\* again, under the same uid or as a new anonymous user.
NextIdentity ==
    \/ BookingStep("u1")
    \/ \E uid \in {"u1", AnonUid("u1")} : SignedInAgain("u1", uid)

SpecIdentity == Init /\ [][NextIdentity]_vars

\* The same browser with a store that answers: a pending addDoc is
\* eventually resolved or rejected.
StoreAnswers(c) ==
    \E i \in 1..MaxRecords : AddDocResolves(c, i) \/ AddDocRejects(c, i)

FairCommit == WF_inflight(StoreAnswers("u1"))

SpecCommit == Init /\ [][NextCache]_vars /\ FairCommit

\* Two browsers booking against the same collection.
InitRace ==
    /\ Init
    /\ tz = 0
    /\ now = LocalDateAt(0, 0, 8, 30)

NextRace ==
    \/ \E c \in Clients : BookingStep(c)
    \/ Tick

SpecRace == InitRace /\ [][NextRace]_vars

(***************************************************************************)
(* The calculator on its own: getAvailableSlots applied to a date, a set   *)
(* of existing appointments and a clock value drawn from bounded sets.     *)
(***************************************************************************)
CalcOffsets == {-180, 0, 540}

\* Local times of day 0 for the clock.
CalcNowTimes == {<<7, 59>>, <<8, 0>>, <<9, 30>>, <<15, 59>>, <<16, 0>>, <<22, 10>>}

\* The Date asked about: its local calendar day and local time of day (a
\* ScheduleGrid date keeps the time of day at which the grid was opened).
CalcDays == {-1, 0, 1}
CalcDayTimes == {<<0, 30>>, <<8, 0>>, <<22, 0>>}

\* Documents of the existing-appointment set.
CalcDocs ==
    {[id |-> 1, userId |-> "u2", date |-> d, time |-> t, paid |-> TRUE] :
        d \in CalcDays, t \in {"10:00", "17:00"}}

RECURSIVE SeqsUpTo(_, _)
SeqsUpTo(S, n) ==
    IF n = 0 THEN {<<>>}
    ELSE LET shorter == SeqsUpTo(S, n - 1)
         IN  shorter \cup {Append(q, x) : q \in shorter, x \in S}

InitCalc ==
    /\ tz \in CalcOffsets
    /\ \E day \in CalcDays, dt \in CalcDayTimes, nt \in CalcNowTimes,
          apps \in SeqsUpTo(CalcDocs, MaxExisting) :
          query = [date |-> LocalDateAt(tz, day, dt[1], dt[2]),
                   apps |-> apps,
                   now |-> LocalDateAt(tz, 0, nt[1], nt[2])]
    /\ slots = NotComputed
    /\ now = 0
    /\ store = <<>>
    /\ currentPage = [c \in Clients |-> "dashboard"]
    /\ appAppointments = [c \in Clients |-> <<>>]
    /\ showNotification = [c \in Clients |-> NoNotification]
    /\ selectedDate = [c \in Clients |-> NoDate]
    /\ selectedTime = [c \in Clients |-> Null]
    /\ appointments = [c \in Clients |-> <<>>]
    /\ availableSlots = [c \in Clients |-> <<>>]
    /\ isBooking = [c \in Clients |-> FALSE]
    /\ error = [c \in Clients |-> ""]
    /\ paymentGate = [c \in Clients |-> "none"]
    /\ inflight = [c \in Clients |-> <<>>]
    /\ snapshotSeen = [c \in Clients |-> FALSE]
    /\ gridSub = [c \in Clients |-> 0]
    /\ userId = [c \in Clients |-> Null]
    /\ isAuthReady = [c \in Clients |-> FALSE]
    /\ userProfile = [c \in Clients |-> Null]
    /\ appSub = [c \in Clients |-> 0]
    /\ profileLoad = [c \in Clients |-> Null]

\* One call of getAvailableSlots.
ComputeSlots ==
    /\ slots = NotComputed
    /\ slots' = getAvailableSlots(query.date, query.apps, query.now)
    /\ UNCHANGED <<tz, now, progVars, query>>

NextCalc == ComputeSlots

SpecCalc == InitCalc /\ [][NextCalc]_vars

(***************************************************************************)
(* DashboardScreen.upcomingAppointments, and the function on its own       *)
(* applied to a cache, a uid and a clock value drawn from bounded sets.    *)
(***************************************************************************)
\* .filter(app => app.userId === userId)
OwnAppointments(apps, uid) == SelectSeq(apps, LAMBDA app : app.userId = uid)

\* .map(app => ({...app, dateTime: new Date(app.date + 'T' + app.time + ':00')}))
WithDateTime(app) ==
    [id |-> app.id, userId |-> app.userId, profile |-> app.profile, date |-> app.date,
     time |-> app.time, paid |-> app.paid,
     dateTime |-> ParseLocalDateTime(app.date, app.time)]

\* The filter on the start with > in place of >=.
IsUpcomingStrict(app, t) == app.dateTime > t

\* .filter(app => app.dateTime.getTime() >= now.getTime())
IsUpcoming(app, t) == app.dateTime >= t

\* Array.prototype.sort with (a, b) => a.dateTime - b.dateTime: ascending and
\* stable, here by insertion.
InsertByDateTime(sorted, app) ==
    LET before == SelectSeq(sorted, LAMBDA a : a.dateTime <= app.dateTime)
        after == SelectSeq(sorted, LAMBDA a : a.dateTime > app.dateTime)
    IN  before \o <<app>> \o after

RECURSIVE SortByDateTime(_)
SortByDateTime(apps) ==
    IF apps = <<>> THEN <<>>
    ELSE InsertByDateTime(SortByDateTime(SubSeq(apps, 1, Len(apps) - 1)), apps[Len(apps)])

upcomingAppointments(apps, uid, t) ==
    LET own == OwnAppointments(apps, uid)
        mapped == [k \in 1..Len(own) |-> WithDateTime(own[k])]
    IN  SortByDateTime(SelectSeq(mapped, LAMBDA app : IsUpcoming(app, t)))

\* Local times of day 0 for the clock of the dashboard.
UpcomingNowTimes == {<<9, 59>>, <<10, 0>>, <<10, 1>>, <<17, 0>>}

\* Documents of the cache handed to the dashboard.
UpcomingDocs ==
    {[id |-> 0, userId |-> u, profile |-> u, date |-> d, time |-> t, paid |-> TRUE] :
        u \in Clients, d \in CalcDays, t \in {"10:00", "17:00"}}

\* snapshot.docs.map(doc => ({id: doc.id, ...doc.data()})): every document
\* of a snapshot has its own id.
WithIds(docs) == [k \in 1..Len(docs) |-> [docs[k] EXCEPT !.id = k]]

InitUpcoming ==
    /\ tz \in CalcOffsets
    /\ \E u \in Clients, nt \in UpcomingNowTimes,
          apps \in SeqsUpTo(UpcomingDocs, MaxExisting) :
          query = [apps |-> WithIds(apps),
                   userId |-> u,
                   now |-> LocalDateAt(tz, 0, nt[1], nt[2]),
                   done |-> FALSE]
    /\ slots = NotComputed
    /\ now = 0
    /\ store = <<>>
    /\ currentPage = [c \in Clients |-> "dashboard"]
    /\ appAppointments = [c \in Clients |-> <<>>]
    /\ showNotification = [c \in Clients |-> NoNotification]
    /\ selectedDate = [c \in Clients |-> NoDate]
    /\ selectedTime = [c \in Clients |-> Null]
    /\ appointments = [c \in Clients |-> <<>>]
    /\ availableSlots = [c \in Clients |-> <<>>]
    /\ isBooking = [c \in Clients |-> FALSE]
    /\ error = [c \in Clients |-> ""]
    /\ paymentGate = [c \in Clients |-> "none"]
    /\ inflight = [c \in Clients |-> <<>>]
    /\ snapshotSeen = [c \in Clients |-> FALSE]
    /\ gridSub = [c \in Clients |-> 0]
    /\ userId = [c \in Clients |-> Null]
    /\ isAuthReady = [c \in Clients |-> FALSE]
    /\ userProfile = [c \in Clients |-> Null]
    /\ appSub = [c \in Clients |-> 0]
    /\ profileLoad = [c \in Clients |-> Null]

\* One evaluation of the upcomingAppointments memo.
DeriveUpcoming ==
    /\ ~query.done
    /\ slots' = upcomingAppointments(query.apps, query.userId, query.now)
    /\ query' = [query EXCEPT !.done = TRUE]
    /\ UNCHANGED <<tz, now, progVars>>

NextUpcoming == DeriveUpcoming

SpecUpcoming == InitUpcoming /\ [][NextUpcoming]_vars

(***************************************************************************)
(* Claims about the shared collection and the booking attempt.             *)
(***************************************************************************)
SlotOf(r) == <<r.date, r.time>>

\* The create issued in this step by client c, when there is one.
CreateIssued(c) == Len(inflight'[c]) > Len(inflight[c])
IssuedAppt(c) == inflight'[c][Len(inflight'[c])].appt

\* The create of client c answered with success in this step.
CreateCommitted(c) ==
    /\ Len(inflight'[c]) < Len(inflight[c])
    /\ Len(store') > Len(store)

\* C1: in every reachable state of the shared collection no two distinct
\* committed records have the same (date, time).
C1Claim ==
    \A i, j \in 1..Len(store) : i # j => SlotOf(store[i]) # SlotOf(store[j])

\* C2: when two clients confirm the same slot with a successful payment,
\* exactly one of them ends Committed: never do two clients both hold the
\* committed record of one (date, time).
C2Claim ==
    \A c1, c2 \in Clients :
        (c1 # c2 /\ showNotification[c1] # NoNotification
                 /\ showNotification[c2] # NoNotification)
        => SlotOf(showNotification[c1]) # SlotOf(showNotification[c2])

\* C3: whenever a booking attempt issues the create of a record for
\* (date, time), no record of the client's current cache holds that slot.
C3Claim ==
    [][\A c \in Clients :
          CreateIssued(c) =>
              ~\E k \in 1..Len(appointments[c]) :
                  SlotOf(appointments[c][k]) = SlotOf(IssuedAppt(c))]_vars

\* C4: no record is committed for a same-day slot whose start is not strictly
\* more than 60 minutes after the instant at which its create is issued.
C4Claim ==
    [][\A c \in Clients :
          CreateIssued(c) =>
              LET r == IssuedAppt(c)
                  day == (now + tz) \div (24 * 60)
                  minuteOfDay == (now + tz) % (24 * 60)
                  hour == CHOOSE h \in 0..23 : TimeTexts[h] = r.time
              IN  r.date = day => hour * 60 > minuteOfDay + 60]_vars

\* C10: a create is issued only by an attempt whose payment gate reported
\* success; when the gate is cancelled the attempt ends with the
\* payment-not-completed message, issues no create and leaves the store
\* unchanged; every record the clients commit has paid = true.
C10Step(c) ==
    /\ CreateIssued(c) => paymentGate'[c] = "ok"
    /\ (paymentGate'[c] = "cancelled" /\ paymentGate[c] # "cancelled") =>
           /\ error'[c] = PaymentCancelledMsg
           /\ store' = store
           /\ inflight' = inflight
           /\ isBooking'[c] = isBooking[c]
    /\ CreateCommitted(c) =>
           \E i \in 1..Len(inflight[c]) :
               /\ inflight[c][i].appt.paid
               /\ SlotOf(store'[Len(store')]) = SlotOf(inflight[c][i].appt)

C10Theorem ==
    /\ [][\A c \in Clients : C10Step(c)]_vars
    /\ [](\A k \in 1..Len(store) : store[k].paid)

C10Witness ==
    /\ paymentGate["u1"] = "cancelled"
    /\ error["u1"] = PaymentCancelledMsg
    /\ inflight["u1"] = <<>>
    /\ \E k \in 1..Len(store) : store[k].userId = "u1"

(***************************************************************************)
(* Claims about the calculator.                                            *)
(***************************************************************************)
NineSlots ==
    <<"09:00", "10:00", "11:00", "12:00", "13:00", "14:00", "15:00", "16:00", "17:00">>

Computed == slots # NotComputed

\* The position of a slot among the nine, and its start in minutes after
\* local midnight.
SlotIndex(time) == CHOOSE k \in 1..Len(NineSlots) : NineSlots[k] = time
SlotMinute(time) == (8 + SlotIndex(time)) * 60

\* The calendar day (local to the operating timezone) and minute of the day
\* of an instant.
CalendarDay(t) == (t + tz) \div (24 * 60)
MinuteOfDay(t) == (t + tz) % (24 * 60)

QueryDay == CalendarDay(query.date)
QueryToday == CalendarDay(query.now)

\* A record of the existing set holds slot `time` of the queried day.
BookedOnQueryDay(time) ==
    \E k \in 1..Len(query.apps) :
        query.apps[k].date = QueryDay /\ query.apps[k].time = time

\* C5: getAvailableSlots returns only values of the nine hourly slots 09:00
\* to 17:00, strictly ascending, without duplicates, none at or after 18:00.
C5Theorem ==
    Computed =>
        /\ \A i \in 1..Len(slots) : slots[i] \in Range(NineSlots)
        /\ \A i, j \in 1..Len(slots) :
               i < j => SlotIndex(slots[i]) < SlotIndex(slots[j])
        /\ \A i \in 1..Len(slots) : slots[i] \notin {"18:00", "19:00"}

C5Witness ==
    /\ Computed
    /\ slots = NineSlots
    /\ query.apps # <<>>

\* C6: if the existing set contains a record with (date, time) = (d, t), the
\* result for d does not contain t.
C6Claim ==
    Computed =>
        \A time \in Range(NineSlots) :
            BookedOnQueryDay(time) => time \notin Range(slots)

C8Claim ==
    (Computed /\ QueryDay = QueryToday /\ MinuteOfDay(query.now) = 8 * 60) =>
        /\ query.apps = <<>> => slots = NineSlots
        /\ (Len(query.apps) = 1 /\ BookedOnQueryDay("10:00")) =>
               slots = <<"09:00">> \o SubSeq(NineSlots, 3, 9)

\* C9: a same-day query returns every unbooked slot starting strictly more
\* than 60 minutes after now, and a query of a later day returns every
\* unbooked slot.
C9Claim ==
    Computed =>
        \A time \in Range(NineSlots) :
            /\ (/\ QueryDay = QueryToday
                /\ ~BookedOnQueryDay(time)
                /\ SlotMinute(time) > MinuteOfDay(query.now) + 60)
               => time \in Range(slots)
            /\ (QueryDay > QueryToday /\ ~BookedOnQueryDay(time))
               => time \in Range(slots)

(***************************************************************************)
(* Claims about the confirm handler, the notification and the caches.      *)
(***************************************************************************)
\* C11: a confirm taken while no slot is selected reports the validation
\* error and changes nothing else: while selectedTime is null no step
\* invokes the payment gate, issues a create or enters Committing, and the
\* step that sets the validation error leaves the selected date, the
\* selected slot, the cache and the store as they were.
C11Step(c) ==
    (GridMounted(c) /\ selectedTime[c] = Null) =>
        /\ ~CreateIssued(c)
        /\ paymentGate'[c] \in {paymentGate[c], "none"}
        /\ isBooking'[c] => isBooking[c]
        /\ (error'[c] = NoSlotSelectedMsg /\ error[c] # NoSlotSelectedMsg) =>
               /\ selectedDate'[c] = selectedDate[c]
               /\ selectedTime'[c] = Null
               /\ appointments'[c] = appointments[c]
               /\ availableSlots'[c] = availableSlots[c]
               /\ store' = store
               /\ currentPage'[c] = currentPage[c]

C11Theorem == [][\A c \in Clients : C11Step(c)]_vars

C11Witness ==
    /\ GridMounted("u1")
    /\ error["u1"] = NoSlotSelectedMsg
    /\ selectedTime["u1"] = Null
    /\ paymentGate["u1"] = "none"
    /\ ~isBooking["u1"]
    /\ inflight["u1"] = <<>>

\* The creates in flight that the mounted ScheduleGrid instance of client c
\* issued (the others belong to instances unmounted since).
OwnInflight(c) == {k \in 1..Len(inflight[c]) : inflight[c][k].mounted}

\* C12: one ScheduleGrid instance never has two creates in flight: while
\* isBooking is true no confirm issues a create, a step issues at most one
\* create and only after the payment gate returned ok, and an answered
\* create adds exactly one record for the one create it ends.
C12Step(c) ==
    /\ Cardinality(OwnInflight(c)) <= 1
    /\ isBooking[c] => ~CreateIssued(c)
    /\ CreateIssued(c) =>
           /\ Len(inflight'[c]) = Len(inflight[c]) + 1
           /\ paymentGate'[c] = "ok"
           /\ isBooking'[c]
           /\ store' = store
    /\ CreateCommitted(c) =>
           /\ Len(store') = Len(store) + 1
           /\ Len(inflight'[c]) = Len(inflight[c]) - 1

C12Theorem == [][\A c \in Clients : C12Step(c)]_vars

\* The mounted instance is committing its one create while the create of an
\* instance left earlier is still unanswered.
C12Witness ==
    /\ GridMounted("u1")
    /\ isBooking["u1"]
    /\ Len(inflight["u1"]) = 2
    /\ Cardinality(OwnInflight("u1")) = 1

\* The create of client c answered with a failure in this step.
CreateFailed(c) ==
    /\ Len(inflight'[c]) < Len(inflight[c])
    /\ store' = store

\* onBookingConfirmed called in this step: App.showNotification takes a new
\* record.
Notified(c) ==
    /\ showNotification'[c] # NoNotification
    /\ showNotification'[c] # showNotification[c]

\* C13: onBookingConfirmed is called exactly in the steps in which a create
\* of the client succeeds, never when a create fails or none is answered,
\* and the record it receives is the document just written: the clientId,
\* date and time of the create that was in flight, with the id the store
\* assigned.
C13Step(c) ==
    /\ Notified(c) <=> CreateCommitted(c)
    /\ CreateFailed(c) => showNotification'[c] = showNotification[c]
    /\ CreateCommitted(c) =>
           LET n == showNotification'[c]
           IN  /\ n = store'[Len(store')]
               /\ n.id = Len(store) + 1
               /\ n.userId = c
               /\ \A k \in 1..Len(store) : store[k].id # n.id
               /\ \E i \in 1..Len(inflight[c]) :
                      /\ inflight[c][i].appt.userId = n.userId
                      /\ inflight[c][i].appt.date = n.date
                      /\ inflight[c][i].appt.time = n.time
                      /\ inflight'[c] = Orphaned(RemoveAt(inflight[c], i))

C13Theorem == [][\A c \in Clients : C13Step(c)]_vars

\* The reminder holds the second document of the collection, the one the
\* client's create wrote after another client's document.
C13Witness ==
    /\ Len(store) = 2
    /\ store[1].userId = "u2"
    /\ showNotification["u1"] = store[2]
    /\ showNotification["u1"].userId = "u1"
    /\ currentPage["u1"] = "dashboard"

(***************************************************************************)
(* Claims about the upcoming list.                                         *)
(***************************************************************************)
\* The instant at which the slot of a record starts: its date and time read
\* in the browser's zone.
StartInstant(r) ==
    r.date * 24 * 60 + (CHOOSE h \in 0..23 : TimeTexts[h] = r.time) * 60 - tz

\* The ids of the cached records the client should see as upcoming.
ExpectedUpcoming ==
    {query.apps[k].id : k \in {i \in 1..Len(query.apps) :
        /\ query.apps[i].userId = query.userId
        /\ StartInstant(query.apps[i]) >= query.now}}

\* C14: upcomingAppointments returns exactly the cached records of the given
\* client whose slot starts at or after now, each once, in ascending order
\* of start; no record of another client and no record that started before
\* now is in it.
C14Theorem ==
    query.done =>
        /\ {slots[k].id : k \in 1..Len(slots)} = ExpectedUpcoming
        /\ Len(slots) = Cardinality(ExpectedUpcoming)
        /\ \A k \in 1..Len(slots) :
               /\ slots[k].userId = query.userId
               /\ StartInstant(slots[k]) >= query.now
               /\ \E i \in 1..Len(query.apps) :
                      /\ query.apps[i].id = slots[k].id
                      /\ query.apps[i].date = slots[k].date
                      /\ query.apps[i].time = slots[k].time
                      /\ query.apps[i].userId = slots[k].userId
        /\ \A i, j \in 1..Len(slots) :
               i < j => StartInstant(slots[i]) <= StartInstant(slots[j])

\* The list holds the one record of the client that starts exactly now and
\* leaves out the record of the other client.
C14Witness ==
    /\ query.done
    /\ Len(query.apps) = 2
    /\ Len(slots) = 1
    /\ StartInstant(slots[1]) = query.now
    /\ \E i \in 1..2 : query.apps[i].userId # query.userId

(***************************************************************************)
(* Claims about the snapshot feed.                                         *)
(***************************************************************************)
\* Document k of the collection is in the given cache.
Cached(cache, k) == k <= Len(cache) /\ k <= Len(store) /\ cache[k] = store[k]

\* The grid of client c shows the calendar day of record r and offers the
\* slot of r.
OffersSlotOf(c, r) ==
    /\ GridMounted(c)
    /\ toDateString(selectedDate[c]) = r.date
    /\ r.time \in Range(availableSlots[c])

\* C15: under fair delivery of snapshots every committed record eventually
\* is in the cache of every client with an active subscription (the grid
\* while it is mounted, App once it subscribed); once it is in the grid's
\* cache the grid no longer offers its slot, and once it is in App's cache
\* the booking client's upcoming list holds it while its start is not past.
C15Claim ==
    \A k \in 1..MaxRecords :
        /\ (k <= Len(store)) ~> (~GridMounted("u1") \/ Cached(appointments["u1"], k))
        /\ (k <= Len(store) /\ appSub["u1"] > 0) ~> Cached(appAppointments["u1"], k)
        /\ [](Cached(appointments["u1"], k) => ~OffersSlotOf("u1", store[k]))
        /\ []((/\ Cached(appAppointments["u1"], k)
               /\ store[k].userId = "u1"
               /\ StartInstant(store[k]) >= now)
              => \E i \in 1..Len(appAppointments["u1"]) :
                     upcomingAppointments(appAppointments["u1"], "u1", now)[i].id
                         = store[k].id)

\* C16: a listener on the appointments collection is registered only while
\* the client is identified and its profile is loaded (App) and, for the
\* grid, only while a ScheduleGrid instance is mounted; a mounted instance
\* holds exactly one listener and leaving the grid releases it, so none is
\* left over across cycles of opening and leaving; while no listener is
\* registered no delivery updates the cache.
C16Step(c) ==
    /\ appSub[c] > 0 => (userId[c] # Null /\ ProfileReady(c))
    /\ gridSub[c] > 0 => (userId[c] # Null /\ ProfileReady(c) /\ GridMounted(c))
    /\ appSub[c] <= 1
    /\ gridSub[c] = (IF GridMounted(c) THEN 1 ELSE 0)
    /\ gridSub'[c] = (IF currentPage'[c] = "schedule" THEN 1 ELSE 0)
    /\ (gridSub[c] = 0 /\ gridSub'[c] = 0) => appointments'[c] = appointments[c]
    /\ appSub[c] = 0 => appAppointments'[c] = appAppointments[c]

C16Theorem == [][\A c \in Clients : C16Step(c)]_vars

\* A second ScheduleGrid instance is mounted with its one listener while the
\* create of the instance left before it is still unanswered, and the
\* collection has a document the grid's listener has not delivered yet.
C16Witness ==
    /\ GridMounted("u1")
    /\ gridSub["u1"] = 1
    /\ appSub["u1"] = 1
    /\ Len(inflight["u1"]) = 1
    /\ ~inflight["u1"][1].mounted
    /\ Len(store) = 1
    /\ appointments["u1"] = <<>>

\* C17: when the create of a booking attempt fails, the attempt ends with
\* the generic failure message shown, the store has no record of it, the
\* reminder is not raised, no create is issued in its place, and isBooking
\* is false so that the client can confirm again.
C17Claim ==
    [][\A c \in Clients :
          CreateFailed(c) =>
              /\ error'[c] = StoreFailedMsg
              /\ ~isBooking'[c]
              /\ store' = store
              /\ showNotification'[c] = showNotification[c]
              /\ Len(inflight'[c]) = Len(inflight[c]) - 1]_vars

\* C18: each cache starts empty and changes only by taking the whole content
\* of the collection at a delivery (the grid's cache is also emptied when
\* the grid is mounted or left), never a mix of its previous content and the
\* snapshot; a create in flight does not hold a delivery back.
C18Step(c) ==
    /\ appointments'[c] # appointments[c] =>
           \/ GridMounted(c) /\ currentPage'[c] = "schedule" /\ appointments'[c] = store
           \/ currentPage'[c] # currentPage[c] /\ appointments'[c] = <<>>
    /\ appAppointments'[c] # appAppointments[c] => appAppointments'[c] = store
    /\ (GridMounted(c) /\ isBooking[c] /\ appointments[c] # store) => ENABLED DeliverGrid(c)
    /\ (appSub[c] > 0 /\ isBooking[c] /\ appAppointments[c] # store) => ENABLED DeliverApp(c)

C18Theorem == [][\A c \in Clients : C18Step(c)]_vars

\* Both caches hold the whole collection while a create of the mounted grid
\* is in flight.
C18Witness ==
    /\ GridMounted("u1")
    /\ isBooking["u1"]
    /\ Cardinality(OwnInflight("u1")) = 1
    /\ Len(store) = 1
    /\ appointments["u1"] = store
    /\ appAppointments["u1"] = store

(***************************************************************************)
(* Claims about the grid and the clock.                                    *)
(***************************************************************************)
\* C19: the slots a mounted grid shows are always getAvailableSlots of its
\* selected date, its current cache and the current wall clock, so that a
\* slot that has come inside the 60-minute lead time is no longer offered.
C19Claim ==
    \A c \in Clients :
        GridMounted(c) =>
            availableSlots[c] = getAvailableSlots(selectedDate[c], appointments[c], now)

\* C20: the selected date of a mounted grid is never a calendar day before
\* today, also after the wall clock has passed midnight with the grid open,
\* and no navigation step moves the selected date to a day before today (a
\* step that would is rejected and changes nothing).
C20Claim ==
    /\ [](\A c \in Clients :
             GridMounted(c) => toDateString(selectedDate[c]) >= toDateString(now))
    /\ [][\A c \in Clients :
             (GridMounted(c) /\ currentPage'[c] = "schedule"
                 /\ selectedDate'[c] # selectedDate[c])
             => toDateString(selectedDate'[c]) >= toDateString(now')]_vars

(***************************************************************************)
(* Claims about past dates, the date key, the records and the identity.    *)
(***************************************************************************)
\* C21: for every date whose calendar day is strictly before today
\* getAvailableSlots returns the empty sequence, whatever the existing
\* appointments are.
C21Claim ==
    (Computed /\ QueryDay < QueryToday) => slots = <<>>

\* C22: the date of the record a create writes, and the date key the grid
\* matches cached records against, is the local calendar day of the
\* selected date, for every time of day at which the grid was opened and
\* every offset of the timezone.
C22Claim ==
    [][\A c \in Clients :
          /\ GridMounted(c) =>
                 toISODateString(selectedDate[c]) = CalendarDay(selectedDate[c])
          /\ CreateIssued(c) =>
                 IssuedAppt(c).date = CalendarDay(selectedDate[c])]_vars

\* C23: the committed records only grow: every step leaves each existing
\* record in place with all its fields, whichever client acts.
C23Theorem ==
    [][/\ Len(store') >= Len(store)
       /\ \A k \in 1..Len(store) : store'[k] = store[k]]_vars

\* The collection holds a record of another client and, after it, a record
\* written by the client's own create.
C23Witness ==
    /\ Len(store) = 2
    /\ store[1].userId = "u2"
    /\ store[2].userId = "u1"
    /\ SlotOf(store[1]) = SlotOf(store[2])

\* C24: a listener is registered and a create is issued for a client only
\* with a non-null uid and a loaded profile, and every record carries a
\* non-null uid and a non-null name and number that are those of the profile
\* of that uid, also after a sign-out followed by a new sign-in.
C24Claim ==
    /\ [](\A c \in Clients :
             /\ (appSub[c] > 0 \/ gridSub[c] > 0) =>
                    (userId[c] # Null /\ userProfile[c] # Null)
             /\ \A k \in 1..Len(store) :
                    /\ store[k].userId # Null
                    /\ store[k].profile # Null
                    /\ store[k].profile = ProfileOf(store[k].userId))
    /\ [][\A c \in Clients :
             CreateIssued(c) =>
                 /\ userId[c] # Null
                 /\ userProfile[c] # Null
                 /\ IssuedAppt(c).profile = ProfileOf(IssuedAppt(c).userId)]_vars

\* C25: a create in flight is never cancelled and, with a store that
\* answers, the attempt finishes and isBooking returns to false; leaving the
\* grid while the create is in flight neither removes it nor changes its
\* outcome: when it succeeds the record is written and handed to
\* onBookingConfirmed.
C25Theorem ==
    /\ \A c \in Clients : isBooking[c] ~> ~isBooking[c]
    /\ [][\A c \in Clients :
             /\ Len(inflight'[c]) < Len(inflight[c]) =>
                    \/ CreateCommitted(c) /\ showNotification'[c] = store'[Len(store')]
                    \/ CreateFailed(c) /\ currentPage'[c] = currentPage[c]
             /\ (GridMounted(c) /\ currentPage'[c] # "schedule" /\ store' = store) =>
                    /\ Len(inflight'[c]) = Len(inflight[c])
                    /\ \A k \in 1..Len(inflight[c]) :
                           inflight'[c][k].appt = inflight[c][k].appt]_vars

\* The client is back on the dashboard while the create its grid issued is
\* still unanswered.
C25Witness ==
    /\ currentPage["u1"] = "dashboard"
    /\ showNotification["u1"] = NoNotification
    /\ Len(inflight["u1"]) = 1
    /\ ~inflight["u1"][1].mounted
    /\ ~isBooking["u1"]

(***************************************************************************)
(* Claims about a grid just opened and about the selection.                *)
(***************************************************************************)
\* The collection holds a record for slot `time` of the day the grid of
\* client c has selected in the next state, under the grid's own date key.
HeldInStore(c, time) ==
    \E k \in 1..Len(store') :
        /\ store'[k].date = toISODateString(selectedDate'[c])
        /\ store'[k].time = time

\* C26: a grid that has just been opened offers no slot for which the
\* collection already holds a record, and before its first snapshot no
\* create is issued for such a slot.
C26Claim ==
    [][\A c \in Clients :
          /\ (~GridMounted(c) /\ currentPage'[c] = "schedule") =>
                 \A time \in Range(availableSlots'[c]) : ~HeldInStore(c, time)
          /\ (CreateIssued(c) /\ ~snapshotSeen[c]) =>
                 ~HeldInStore(c, IssuedAppt(c).time)]_vars

\* C27: the selected slot belongs to the selected date: a step that changes
\* the selected date of a mounted grid clears the selected slot and the
\* error text, a step that selects a slot takes it from the slots shown for
\* the selected date and leaves the date alone, and a create is issued for
\* exactly the selected date and the selected slot.
C27Step(c) ==
    /\ (GridMounted(c) /\ currentPage'[c] = "schedule"
           /\ selectedDate'[c] # selectedDate[c]) =>
           (selectedTime'[c] = Null /\ error'[c] = "")
    /\ (selectedTime'[c] # Null /\ selectedTime'[c] # selectedTime[c]) =>
           /\ selectedDate'[c] = selectedDate[c]
           /\ selectedTime'[c] \in Range(availableSlots[c])
    /\ CreateIssued(c) =>
           /\ selectedTime[c] # Null
           /\ IssuedAppt(c).time = selectedTime[c]
           /\ IssuedAppt(c).date = toISODateString(selectedDate[c])
           /\ selectedDate'[c] = selectedDate[c]

C27Theorem == [][\A c \in Clients : C27Step(c)]_vars

\* The client stepped to the next day, picked a slot there and its create
\* for that pair is in flight.
C27Witness ==
    /\ GridMounted("u1")
    /\ toDateString(selectedDate["u1"]) = toDateString(now) + 1
    /\ selectedTime["u1"] = "14:00"
    /\ Len(inflight["u1"]) = 1
    /\ inflight["u1"][1].appt.time = "14:00"
    /\ inflight["u1"][1].appt.date = toISODateString(selectedDate["u1"])

====
